---------------------------- MODULE Spec2Model ----------------------------
(***************************************************************************)
(* A model of screenshot-chat's Go backend (src/app.go and the per-OS      *)
(* captureScreenshot backends).                                            *)
(*                                                                         *)
(* The three bound methods TakeScreenshot, AnalyzeScreenshot and           *)
(* CheckOllamaStatus are followed statement by statement from the call to  *)
(* the return.  Everything outside the process (the capture tool, the file *)
(* that is read, the HTTP endpoint, the wall clock) is an input chosen     *)
(* with \E at the statement that consumes it.  The methods share no        *)
(* mutable state, so one call is followed at a time; `events' is the call  *)
(* with its arguments and then its side effects, in program order.         *)
(*                                                                         *)
(* Strings that the code builds with fmt.Sprintf / fmt.Errorf are          *)
(* sequences of fragments: the literal pieces of the format string and the *)
(* formatted arguments, in order.  Strings that the code inspects          *)
(* character by character (base64 text, model names) are sequences of      *)
(* one-character strings.                                                  *)
(***************************************************************************)
EXTENDS Integers, Sequences, FiniteSets, TLC

VARIABLES
    platform,       \* the OS backend this build was compiled with
    pc,             \* position of the call being followed
    op,             \* method of the call being followed (or last returned)
    events,         \* the call and its side effects, in program order
    windowVisible,  \* the application window (WindowHide / WindowShow)
    mode,           \* TakeScreenshot: argument
    filename,       \* TakeScreenshot: local
    savePath,       \* TakeScreenshot: local
    hideWindow,     \* TakeScreenshot: local
    windowID,       \* captureScreenshot (darwin, CGWindowID variant): local
    windows,        \* getFrontWindowID: the window list its script was given
    err,            \* the error value the current statement tests
    prompt,         \* AnalyzeScreenshot: argument (reassigned at line 134)
    imageData,      \* AnalyzeScreenshot: local
    reqBody,        \* AnalyzeScreenshot: local, the payload that is POSTed
    resp,           \* the *http.Response of the call, once there is one
    result,         \* the value the call returned
    now,            \* the wall clock, in ticks
    fs,             \* the file system: elements of a path -> [isDir, modTime]
    started,        \* TakeScreenshot: the clock reading time.Now() returned
    previous,       \* an earlier TakeScreenshot call: its mode, second and filename
    screenshots,        \* App.tsx: useState, the gallery
    selectedScreenshot, \* App.tsx: useState
    analysisResult,     \* App.tsx: useState
    isCapturing,        \* App.tsx: useState
    isAnalyzing,        \* App.tsx: useState
    ollamaStatus,       \* App.tsx: useState
    calls               \* App.tsx: the handlers waiting at an await

vars == <<platform, pc, op, events, windowVisible, mode, filename, savePath,
          hideWindow, windowID, windows, err, prompt, imageData, reqBody, resp,
          result, now, fs, started, previous, screenshots, selectedScreenshot,
          analysisResult, isCapturing, isAnalyzing, ollamaStatus, calls>>

\* the state of the App component and its handlers
ui == <<screenshots, selectedScreenshot, analysisResult, isCapturing,
        isAnalyzing, ollamaStatus, calls>>

\* what the calls followed statement by statement neither read nor write
unfollowed == <<now, fs, started, previous, ui>>

-----------------------------------------------------------------------------
(* Bounds of the model *)

\* longest image, in bytes, that a read returns (0..3 covers every padding case)
MaxImageLen == 3

\* ticks of the wall clock in one second
TicksPerSecond == 2

\* last tick of the wall clock that is followed
MaxTick == 2

\* most handlers of the component waiting at an await at once
MaxCalls == 2

-----------------------------------------------------------------------------
(* Errors and formatted text *)

NoErr == [isNil |-> TRUE, msg |-> <<>>]

Errorf(fragments) == [isNil |-> FALSE, msg |-> fragments]

\* err.Error() / the text of a formatted string is empty
IsEmptyText(fragments) == \A i \in 1..Len(fragments) : fragments[i] = ""

\* the %q verb on the mode strings of the model (none needs escaping)
Quote(s) == "\"" \o s \o "\""

\* number of events of a kind in a list of events
RECURSIVE Count(_, _)
Count(evs, kind) ==
    IF evs = <<>> THEN 0
    ELSE (IF Head(evs).kind = kind THEN 1 ELSE 0) + Count(Tail(evs), kind)

\* positions of the events of a kind
Positions(evs, kind) == {i \in 1..Len(evs) : evs[i].kind = kind}


\* a character sequence as one string
RECURSIVE Str(_)
Str(cs) == IF cs = <<>> THEN "" ELSE Head(cs) \o Str(Tail(cs))

Event(kind, cmd, ms) == [kind |-> kind, cmd |-> cmd, ms |-> ms]

-----------------------------------------------------------------------------
(* Configuration and inputs *)

Platforms == {"linux", "windows", "darwin", "darwin_cgwindow"}

\* NewApp: the fixed directory and endpoint
screenshotDir == "/home/user/Screenshots"

ollamaEndpoint == "http://localhost:11434"

\* mode strings a caller passes: the three modes and two that are none of them
Modes == {"full", "selection", "focused", "window", ""}

ValidModes == {"full", "selection", "focused"}

\* the wall-clock second a tick lies in
Second(t) == t \div TicksPerSecond

Seconds == {Second(t) : t \in 0..MaxTick}

\* %02d
TwoDigits(n) == <<ToString(n \div 10), ToString(n % 10)>>

\* variant: the layout stops at the minute
StampToTheMinute(second) ==
    <<"2", "0", "2", "4", "-", "0", "1", "-", "0", "1", "_", "1", "2", "0", "0">>

\* time.Format("2006-01-02_150405") of a second of the minute after noon of
\* 2024-01-01
Stamp(second) ==
    <<"2", "0", "2", "4", "-", "0", "1", "-", "0", "1", "_", "1", "2", "0", "0">> \o TwoDigits(second)

\* time.Now().Format("2006-01-02_150405") at the start of a call
Timestamps == {Str(Stamp(second)) : second \in Seconds}

\* a.screenshotDir, character by character
ScreenshotDirChars ==
    <<"/", "h", "o", "m", "e", "/", "u", "s", "e", "r", "/", "S", "c", "r", "e", "e", "n", "s", "h", "o", "t", "s">>

\* the characters of a mode string
Letters(m) ==
    CASE m = "full"      -> <<"f", "u", "l", "l">>
      [] m = "selection" -> <<"s", "e", "l", "e", "c", "t", "i", "o", "n">>
      [] m = "focused"   -> <<"f", "o", "c", "u", "s", "e", "d">>
      [] m = "window"    -> <<"w", "i", "n", "d", "o", "w">>
      [] m = ""          -> <<>>

\* fmt.Sprintf("screenshot_%s_%s.png", timestamp, mode), character by character
FileName(stamp, m) ==
    <<"s", "c", "r", "e", "e", "n", "s", "h", "o", "t", "_">> \o stamp \o <<"_">> \o Letters(m)
        \o <<".", "p", "n", "g">>

\* what cmd.CombinedOutput() of the capture tool returns: the tool's exit
\* status and everything it printed
ToolOutcomes ==
    { [ok |-> TRUE,  errText |-> "", output |-> ""],
      [ok |-> FALSE, errText |-> "exit status 1", output |-> "giblib error: Can't open X display"],
      [ok |-> FALSE, errText |-> "exit status 1", output |-> ""],
      [ok |-> FALSE, errText |-> "exec: executable file not found in $PATH", output |-> ""] }

\* a window as CGWindowListCopyWindowInfo describes it; own marks the window
\* of this application
Window(number, layer, owner, own) ==
    [number |-> number, layer |-> layer, owner |-> owner, own |-> own]

OwnWindow == Window(77, 0, "screenshot-chat", TRUE)

Menubar == Window(3, 24, "Window Server", FALSE)

Dock == Window(17, 20, "Dock", FALSE)

Backstop == Window(5, 0, "Window Server", FALSE)

Unowned == Window(9, 0, "", FALSE)

Editor == Window(42, 0, "TextEdit", FALSE)

Terminal == Window(108, 0, "Terminal", FALSE)

\* the other applications' windows on screen, front to back
WindowLists ==
    { <<Menubar, Dock, Editor, Terminal>>,
      <<Menubar, Backstop, Terminal, Editor>>,
      <<Menubar, Unowned, Dock, Backstop>>,
      <<>> }

\* kCGWindowListOptionOnScreenOnly: the application's window is listed while
\* it is shown
OnScreen(others, visible) == IF visible THEN <<OwnWindow>> \o others ELSE others

\* print(n) of a window number: its decimal digits
RECURSIVE Decimal(_)
Decimal(n) ==
    IF n < 10 THEN <<ToString(n)>> ELSE Append(Decimal(n \div 10), ToString(n % 10))

\* the loop of the script: the number of the first window with layer 0 whose
\* owner is neither "" nor "Window Server", else an empty line
RECURSIVE FrontWindowScript(_)
FrontWindowScript(ws) ==
    IF ws = <<>> THEN <<"\n">>
    ELSE IF Head(ws).layer = 0 /\ Head(ws).owner \notin {"", "Window Server"}
    THEN Append(Decimal(Head(ws).number), "\n")
    ELSE FrontWindowScript(Tail(ws))

\* what cmd.CombinedOutput() of the python3 window query returns
QueryOutcomes(ws) ==
    { [ok |-> TRUE,  errText |-> "", output |-> FrontWindowScript(ws)],
      [ok |-> FALSE, errText |-> "exit status 1", output |-> <<"N", "o", " ", "Q", "u", "a", "r", "t", "z", "\n">>] }

\* bytes an image file is made of: all zeros, all ones, a letter, and one
\* whose sextets reach the last characters of the alphabet
ByteValues == {0, 77, 251, 255}

\* the contents os.ReadFile can return
Images == UNION {[1..n -> ByteValues] : n \in 0..MaxImageLen}

\* the prompt a caller passes
Prompts == {"", "What is in this image?"}

\* time.Since(startTime).Seconds() of a call that succeeds
Durations == {1, 42}

\* not yet a request, a response, a result
NoRequest == [Model |-> "", Messages |-> <<>>, Stream |-> FALSE]

NoResult == [Success |-> FALSE]

-----------------------------------------------------------------------------
(* encoding/base64: StdEncoding *)

\* the standard alphabet, index 0 first
encodeStd ==
    <<"A", "B", "C", "D", "E", "F", "G", "H", "I", "J", "K", "L", "M", "N", "O", "P",
       "Q", "R", "S", "T", "U", "V", "W", "X", "Y", "Z", "a", "b", "c", "d", "e", "f",
       "g", "h", "i", "j", "k", "l", "m", "n", "o", "p", "q", "r", "s", "t", "u", "v",
       "w", "x", "y", "z", "0", "1", "2", "3", "4", "5", "6", "7", "8", "9", "+", "/">>

\* the character of a 6-bit value
Char64(v) == encodeStd[v + 1]

\* variant: RawStdEncoding, which leaves the padding out
RECURSIVE RawEncodeToString(_)
RawEncodeToString(src) ==
    IF Len(src) = 0 THEN <<>>
    ELSE IF Len(src) = 1 THEN
        <<Char64(src[1] \div 4), Char64((src[1] % 4) * 16)>>
    ELSE IF Len(src) = 2 THEN
        <<Char64(src[1] \div 4),
          Char64((src[1] % 4) * 16 + src[2] \div 16),
          Char64((src[2] % 16) * 4)>>
    ELSE
        <<Char64(src[1] \div 4),
          Char64((src[1] % 4) * 16 + src[2] \div 16),
          Char64((src[2] % 16) * 4 + src[3] \div 64),
          Char64(src[3] % 64)>>
        \o RawEncodeToString(SubSeq(src, 4, Len(src)))

\* StdEncoding.EncodeToString: 3 bytes to 4 characters, the last group padded
\* with '='
RECURSIVE EncodeToString(_)
EncodeToString(src) ==
    IF Len(src) = 0 THEN <<>>
    ELSE IF Len(src) = 1 THEN
        <<Char64(src[1] \div 4), Char64((src[1] % 4) * 16), "=", "=">>
    ELSE IF Len(src) = 2 THEN
        <<Char64(src[1] \div 4),
          Char64((src[1] % 4) * 16 + src[2] \div 16),
          Char64((src[2] % 16) * 4), "=">>
    ELSE
        <<Char64(src[1] \div 4),
          Char64((src[1] % 4) * 16 + src[2] \div 16),
          Char64((src[2] % 16) * 4 + src[3] \div 64),
          Char64(src[3] % 64)>>
        \o EncodeToString(SubSeq(src, 4, Len(src)))

\* the 6-bit value of a character of the alphabet
Index64(c) == CHOOSE v \in 0..63 : encodeStd[v + 1] = c

InAlphabet(c) == \E v \in 0..63 : encodeStd[v + 1] = c

\* StdEncoding.DecodeString, as the server applies it: groups of 4
\* characters, padding only at the end, anything else is corrupt input
RECURSIVE DecodeString(_)
DecodeString(s) ==
    IF Len(s) = 0 THEN [ok |-> TRUE, bytes |-> <<>>]
    ELSE IF Len(s) < 4 \/ ~InAlphabet(s[1]) \/ ~InAlphabet(s[2])
        THEN [ok |-> FALSE, bytes |-> <<>>]
    ELSE IF s[3] = "=" THEN
        IF Len(s) = 4 /\ s[4] = "="
        THEN [ok |-> TRUE,
              bytes |-> <<Index64(s[1]) * 4 + Index64(s[2]) \div 16>>]
        ELSE [ok |-> FALSE, bytes |-> <<>>]
    ELSE IF ~InAlphabet(s[3]) THEN [ok |-> FALSE, bytes |-> <<>>]
    ELSE IF s[4] = "=" THEN
        IF Len(s) = 4
        THEN [ok |-> TRUE,
              bytes |-> <<Index64(s[1]) * 4 + Index64(s[2]) \div 16,
                          (Index64(s[2]) % 16) * 16 + Index64(s[3]) \div 4>>]
        ELSE [ok |-> FALSE, bytes |-> <<>>]
    ELSE IF ~InAlphabet(s[4]) THEN [ok |-> FALSE, bytes |-> <<>>]
    ELSE LET rest == DecodeString(SubSeq(s, 5, Len(s)))
         IN  [ok |-> rest.ok,
              bytes |-> <<Index64(s[1]) * 4 + Index64(s[2]) \div 16,
                          (Index64(s[2]) % 16) * 16 + Index64(s[3]) \div 4,
                          (Index64(s[3]) % 4) * 64 + Index64(s[4])>>
                        \o rest.bytes]

-----------------------------------------------------------------------------
(* JSON documents the endpoint answers with, and encoding/json's Unmarshal *)
(* into the two response structs                                           *)

\* a JSON member that holds text: absent, null, a string, or a number
Absent == [kind |-> "absent", text |-> ""]

JNull == [kind |-> "null", text |-> ""]

JString(t) == [kind |-> "string", text |-> t]

JNumber == [kind |-> "number", text |-> ""]

\* the "message" member
NoMessage == [kind |-> "absent", content |-> Absent, thinking |-> Absent]

Message(c, t) == [kind |-> "object", content |-> c, thinking |-> t]

\* the "models" member; a name is a sequence of characters
NoModels == [kind |-> "absent", items |-> <<>>]

ModelList(items) == [kind |-> "array", items |-> items]

Named(cs) == [kind |-> "string", chars |-> cs]

Unnamed == [kind |-> "absent", chars |-> <<>>]

NumberNamed == [kind |-> "number", chars |-> <<>>]

\* a body: its bytes, whether they are a JSON document, and the document
Document(raw, top, message, models) ==
    [raw |-> raw, syntaxOk |-> TRUE, top |-> top, message |-> message, models |-> models]

NotJson(raw) ==
    [raw |-> raw, syntaxOk |-> FALSE, top |-> "none", message |-> NoMessage, models |-> NoModels]

NoResp == [StatusCode |-> 0, readOk |-> TRUE, body |-> NotJson("")]

\* bodies of POST /api/chat
ChatBodies ==
    { Document("{\"message\":{\"content\":\"A desktop.\",\"thinking\":\"reasoning...\"}}",
               "object", Message(JString("A desktop."), JString("reasoning...")), NoModels),
      Document("{\"message\":{\"role\":\"assistant\",\"content\":\"A desktop.\"},\"done\":true}",
               "object", Message(JString("A desktop."), Absent), NoModels),
      Document("{\"message\":{\"content\":null,\"thinking\":\"reasoning...\"}}",
               "object", Message(JNull, JString("reasoning...")), NoModels),
      Document("{\"message\":{\"content\":42}}",
               "object", Message(JNumber, Absent), NoModels),
      Document("{\"message\":\"A desktop.\"}",
               "object", [kind |-> "string", content |-> Absent, thinking |-> Absent], NoModels),
      Document("{\"error\":\"model 'qwen3-vl:8b' not found\"}",
               "object", NoMessage, NoModels),
      Document("null", "null", NoMessage, NoModels),
      Document("[]", "array", NoMessage, NoModels),
      NotJson("<html>502 Bad Gateway</html>"),
      NotJson("") }

QwenLatest == <<"q", "w", "e", "n", "3", "-", "v", "l", ":", "8", "b">>

QwenPrefixed == <<"h", "f", "/", "q", "w", "e", "n", "3", "-", "v", "l">>

QwenText == <<"q", "w", "e", "n", "3", ":", "8", "b">>

QwenInstruct ==
    <<"q", "w", "e", "n", "3", "-", "v", "l", ":", "8", "b", "-",
      "i", "n", "s", "t", "r", "u", "c", "t">>

Llama == <<"l", "l", "a", "m", "a", "3">>

\* bodies of GET /api/tags
TagsBodies ==
    { Document("{\"models\":[{\"name\":\"llama3\"},{\"name\":\"qwen3-vl:8b\"}]}",
               "object", NoMessage, ModelList(<<Named(Llama), Named(QwenLatest)>>)),
      Document("{\"models\":[{\"name\":\"hf/qwen3-vl\"}]}",
               "object", NoMessage, ModelList(<<Named(QwenPrefixed)>>)),
      Document("{\"models\":[{\"name\":\"qwen3-vl:8b-instruct\"}]}",
               "object", NoMessage, ModelList(<<Named(QwenInstruct)>>)),
      Document("{\"models\":[{\"name\":\"qwen3:8b\"},{\"name\":\"llama3\"}]}",
               "object", NoMessage, ModelList(<<Named(QwenText), Named(Llama)>>)),
      Document("{\"models\":[{\"size\":1},{\"name\":\"qwen3-vl:8b\"}]}",
               "object", NoMessage, ModelList(<<Unnamed, Named(QwenLatest)>>)),
      Document("{\"models\":[{\"name\":\"qwen3-vl:8b\"},{\"name\":7}]}",
               "object", NoMessage, ModelList(<<Named(QwenLatest), NumberNamed>>)),
      Document("{\"models\":[]}", "object", NoMessage, ModelList(<<>>)),
      Document("{\"models\":null}", "object", NoMessage, [kind |-> "null", items |-> <<>>]),
      Document("{\"models\":\"qwen3-vl:8b\"}", "object", NoMessage, [kind |-> "string", items |-> <<>>]),
      Document("{}", "object", NoMessage, NoModels),
      Document("null", "null", NoMessage, NoModels),
      NotJson("{\"models\":[{\"name\":\"qwen3-vl:8b"),
      NotJson("") }

StatusCodes == {200, 404, 500}

\* what client.Post / client.Get returns: an error, or a response whose body
\* io.ReadAll reads to the end (readOk) or fails on part-way
TransportErrors ==
    { "dial tcp 127.0.0.1:11434: connect: connection refused",
      "context deadline exceeded (Client.Timeout exceeded while awaiting headers)" }

Responses(bodies) == [StatusCode : StatusCodes, readOk : BOOLEAN, body : bodies]

\* a string member decoded into a Go string field: absent and null leave the
\* zero value, anything but a string is an UnmarshalTypeError
FieldError(member) == member.kind \notin {"absent", "null", "string"}

FieldText(member) == IF member.kind = "string" THEN member.text ELSE ""

SyntaxError == Errorf(<<"invalid character looking for beginning of value">>)

TypeError(what) == Errorf(<<"json: cannot unmarshal ", what, " into Go value">>)

\* json.Unmarshal(body, &ollamaResp)
UnmarshalChat(b) ==
    LET zero == [Content |-> "", Thinking |-> ""] IN
    IF ~b.syntaxOk THEN [err |-> SyntaxError, Message |-> zero]
    ELSE IF b.top = "null" THEN [err |-> NoErr, Message |-> zero]
    ELSE IF b.top # "object" THEN [err |-> TypeError(b.top), Message |-> zero]
    ELSE IF b.message.kind \in {"absent", "null"} THEN [err |-> NoErr, Message |-> zero]
    ELSE IF b.message.kind # "object" THEN [err |-> TypeError(b.message.kind), Message |-> zero]
    ELSE [err |-> IF FieldError(b.message.content) THEN TypeError(b.message.content.kind)
                  ELSE IF FieldError(b.message.thinking) THEN TypeError(b.message.thinking.kind)
                  ELSE NoErr,
          Message |-> [Content |-> FieldText(b.message.content),
                       Thinking |-> FieldText(b.message.thinking)]]

\* json.Unmarshal(body, &tagsResp): the names, in order
UnmarshalTags(b) ==
    IF ~b.syntaxOk THEN [err |-> SyntaxError, Models |-> <<>>]
    ELSE IF b.top = "null" THEN [err |-> NoErr, Models |-> <<>>]
    ELSE IF b.top # "object" THEN [err |-> TypeError(b.top), Models |-> <<>>]
    ELSE IF b.models.kind \in {"absent", "null"} THEN [err |-> NoErr, Models |-> <<>>]
    ELSE IF b.models.kind # "array" THEN [err |-> TypeError(b.models.kind), Models |-> <<>>]
    ELSE [err |-> IF \E i \in 1..Len(b.models.items) :
                        b.models.items[i].kind \notin {"absent", "null", "string"}
                  THEN TypeError("number") ELSE NoErr,
          Models |-> [i \in 1..Len(b.models.items) |->
                        IF b.models.items[i].kind = "string"
                        THEN b.models.items[i].chars ELSE <<>>]]

\* variant: the whole string is compared
EqualsWhole(s, substr) == s = substr

\* strings.Contains
Contains(s, substr) ==
    \E i \in 1..(Len(s) - Len(substr) + 1) : SubSeq(s, i, i + Len(substr) - 1) = substr

-----------------------------------------------------------------------------
(* Paths: path/filepath on a Unix file system *)

\* strings.Split(path, "/"), from the left: the elements that are complete
\* and the one being read
RECURSIVE SplitFrom(_, _, _)
SplitFrom(cs, done, current) ==
    IF cs = <<>> THEN Append(done, current)
    ELSE IF Head(cs) = "/" THEN SplitFrom(Tail(cs), Append(done, current), <<>>)
    ELSE SplitFrom(Tail(cs), done, Append(current, Head(cs)))

Split(cs) == SplitFrom(cs, <<>>, <<>>)

\* the elements of a rooted path that are left once "", "." and ".." are
\* worked off, from the left
RECURSIVE Resolve(_, _)
Resolve(elements, kept) ==
    IF elements = <<>> THEN kept
    ELSE IF Head(elements) \in {<<>>, <<".">>} THEN Resolve(Tail(elements), kept)
    ELSE IF Head(elements) = <<".", ".">>
    THEN Resolve(Tail(elements),
                 IF kept = <<>> THEN <<>> ELSE SubSeq(kept, 1, Len(kept) - 1))
    ELSE Resolve(Tail(elements), Append(kept, Head(elements)))

\* the elements of a rooted path
Elements(path) == Resolve(Split(path), <<>>)

\* the rooted path made of elements
RECURSIVE Rooted(_)
Rooted(elements) ==
    IF elements = <<>> THEN <<>>
    ELSE <<"/">> \o Head(elements) \o Rooted(Tail(elements))

\* filepath.Clean of a rooted path
Clean(path) == IF Elements(path) = <<>> THEN <<"/">> ELSE Rooted(Elements(path))

\* filepath.Join(dir, name) of a rooted dir
Join(dir, name) == Clean(dir \o <<"/">> \o name)

\* strings.HasPrefix
HasPrefix(s, prefix) == Len(s) >= Len(prefix) /\ SubSeq(s, 1, Len(prefix)) = prefix

-----------------------------------------------------------------------------
(* captureScreenshot: the per-OS backends *)

Whitespace == {" ", "\n", "\t", "\r"}

\* strings.TrimSpace
RECURSIVE TrimLeft(_)
TrimLeft(cs) ==
    IF cs # <<>> /\ Head(cs) \in Whitespace THEN TrimLeft(Tail(cs)) ELSE cs

RECURSIVE TrimRight(_)
TrimRight(cs) ==
    IF cs # <<>> /\ cs[Len(cs)] \in Whitespace
    THEN TrimRight(SubSeq(cs, 1, Len(cs) - 1))
    ELSE cs

TrimSpace(cs) == TrimRight(TrimLeft(cs))

\* the default: branch of every backend's switch
InvalidModeError(m) ==
    Errorf(<<"invalid mode ", Quote(m), ": use full, selection, or focused">>)

\* the hideWindow value a backend returns
HideHint(plat, m) ==
    CASE plat = "linux"           -> m \in {"full", "focused"}
      [] plat = "windows"         -> m \in {"full", "selection", "focused"}
      [] plat = "darwin"          -> m = "full"
      [] plat = "darwin_cgwindow" -> m \in {"full", "focused"}

\* the PowerShell script of the Windows backend, by what it captures
PsScript(m, path) ==
    CASE m = "full"      -> "CopyFromScreen(AllScreens).Save('" \o path \o "')"
      [] m = "selection" -> "CopyFromScreen(PrimaryScreen).Save('" \o path \o "')"
      [] m = "focused"   -> "CopyFromScreen(GetForegroundWindow).Save('" \o path \o "')"

\* exec.Command(...) of the capture tool
CaptureCommand(plat, m, path, wid) ==
    CASE plat = "linux" /\ m = "full" ->
            <<"scrot", "--silent", "--overwrite", path>>
      [] plat = "linux" /\ m = "selection" ->
            <<"scrot", "--select", "--freeze", "--silent", "--overwrite", path>>
      [] plat = "linux" /\ m = "focused" ->
            <<"scrot", "--focused", "--silent", "--overwrite", path>>
      [] plat = "windows" ->
            <<"powershell", "-NoProfile", "-NonInteractive", "-Command", PsScript(m, path)>>
      [] plat \in {"darwin", "darwin_cgwindow"} /\ m = "full" ->
            <<"screencapture", "-x", path>>
      [] plat \in {"darwin", "darwin_cgwindow"} /\ m = "selection" ->
            <<"screencapture", "-i", "-x", path>>
      [] plat = "darwin" /\ m = "focused" ->
            <<"screencapture", "-w", "-x", path>>
      [] plat = "darwin_cgwindow" /\ m = "focused" ->
            <<"screencapture", "-l" \o wid, "-x", path>>

\* the error a backend returns when its capture tool fails
CaptureFailed(plat, o) ==
    Errorf(<<(CASE plat = "linux"   -> "scrot failed: "
                [] plat = "windows" -> "screenshot capture failed: "
                [] OTHER            -> "screencapture failed: "),
             o.errText, " - ", o.output>>)

\* exec.Command("python3", "-c", script)
PythonQuery == <<"python3", "-c", "CGWindowListCopyWindowInfo script">>

\* an external process is started and waited for
Exec(cmd) == Event("exec", cmd, 0)

\* captureScreenshot returns to TakeScreenshot, hideWindow being its first value
Returns(hint) == Event("captureReturned", <<ToString(hint)>>, 0)

\* the first statement of a backend: the switch on mode
CaptureSwitch ==
    /\ pc = "cs_switch"
    /\ IF mode \notin ValidModes
       THEN /\ err' = InvalidModeError(mode)
            /\ events' = Append(events, Returns(HideHint(platform, mode)))
            /\ pc' = "ts_captured"
       ELSE /\ err' = NoErr
            /\ events' = events
            /\ pc' = IF platform = "darwin_cgwindow" /\ mode = "focused"
                     THEN "cs_query" ELSE "cs_exec"
    /\ UNCHANGED <<platform, op, windowVisible, mode, filename, savePath,
                   hideWindow, windowID, windows, prompt, imageData, reqBody, resp, result>>
    /\ UNCHANGED unfollowed

\* getFrontWindowID and its caller's error check (darwin, CGWindowID variant)
GetFrontWindowID ==
    /\ pc = "cs_query"
    /\ \E others \in WindowLists :
       \E o \in QueryOutcomes(OnScreen(others, windowVisible)) :
          /\ windows' = OnScreen(others, windowVisible)
          /\ IF ~o.ok
             THEN /\ err' = Errorf(<<"could not get focused window: ",
                                     "python3 CGWindowList query failed: ",
                                     o.errText, " - ", Str(o.output)>>)
                  /\ events' = events \o <<Exec(PythonQuery),
                                             Returns(HideHint(platform, mode))>>
                  /\ pc' = "ts_captured"
                  /\ UNCHANGED windowID
             ELSE IF TrimSpace(o.output) = <<>>
             THEN /\ err' = Errorf(<<"could not get focused window: ",
                                     "no focusable window found">>)
                  /\ events' = events \o <<Exec(PythonQuery),
                                             Returns(HideHint(platform, mode))>>
                  /\ pc' = "ts_captured"
                  /\ UNCHANGED windowID
             ELSE /\ windowID' = Str(TrimSpace(o.output))
                  /\ err' = NoErr
                  /\ events' = Append(events, Exec(PythonQuery))
                  /\ pc' = "cs_exec"
    /\ UNCHANGED <<platform, op, windowVisible, mode, filename, savePath,
                   hideWindow, prompt, imageData, reqBody, resp, result>>
    /\ UNCHANGED unfollowed

\* exec.Command(tool, args...).CombinedOutput() and the return that follows
CaptureExec ==
    /\ pc = "cs_exec"
    /\ events' = events \o
                    <<Exec(CaptureCommand(platform, mode, savePath, windowID)),
                      Returns(HideHint(platform, mode))>>
    /\ \E o \in ToolOutcomes :
          err' = IF o.ok THEN NoErr ELSE CaptureFailed(platform, o)
    /\ pc' = "ts_captured"
    /\ UNCHANGED <<platform, op, windowVisible, mode, filename, savePath,
                   hideWindow, windowID, windows, prompt, imageData, reqBody, resp, result>>
    /\ UNCHANGED unfollowed

-----------------------------------------------------------------------------
(* TakeScreenshot, app.go 95-121 *)

CanCall == pc \in {"idle", "returned"}

\* time.Sleep(500 * time.Millisecond), in milliseconds
SettleDelayMs == 500

\* time.Sleep(100 * time.Millisecond), in milliseconds
PostCaptureDelayMs == 100

\* variant: the window is hidden whenever the Windows backend's hint says so
NeedsHideAsHinted(m) == m \in {"full", "selection", "focused"}

\* variant: the window is hidden for a full-screen capture only
NeedsHideFullOnly(m) == m = "full"

\* variant: the window is hidden for everything but selection
NeedsHideUnlessSelection(m) == m # "selection"

\* hideWindow := mode == "full" || mode == "focused"
NeedsHide(m) == m = "full" \/ m = "focused"

\* variant: the window is shown again only when the capture succeeded
RestoreWindowOnSuccess == hideWindow /\ err.isNil

\* the condition under which the window is shown again after the capture
RestoreWindow == hideWindow

\* the call and the locals computed before the first side effect, for a mode
\* and the timestamp time.Now() formats to
TakeScreenshotCall(m, timestamp) ==
    /\ CanCall
    /\ mode' = m
    /\ filename' = "screenshot_" \o timestamp \o "_" \o m \o ".png"
    /\ savePath' = screenshotDir \o "/" \o filename'
    /\ hideWindow' = NeedsHide(m)
    /\ events' = <<Event("call", <<m>>, 0), Event("Now", <<timestamp>>, 0)>>
    /\ op' = "TakeScreenshot"
    /\ pc' = "ts_hide"
    /\ windowID' = ""
    /\ windows' = <<>>
    /\ err' = NoErr
    /\ prompt' = ""
    /\ imageData' = <<>>
    /\ reqBody' = NoRequest
    /\ resp' = NoResp
    /\ result' = NoResult
    /\ UNCHANGED <<platform, windowVisible>>

\* no earlier call
NoCall == [mode |-> "", second |-> -1, filename |-> ""]

\* a call at the time the wall clock shows; any one earlier call is kept for
\* comparison
TakeScreenshotNow ==
    /\ \E m \in Modes : TakeScreenshotCall(m, Str(Stamp(Second(now))))
    /\ started' = now
    /\ previous' \in {previous} \cup
                     (IF op = "TakeScreenshot"
                      THEN {[mode |-> mode, second |-> Second(started), filename |-> filename]}
                      ELSE {})
    /\ UNCHANGED <<now, fs, ui>>

\* the wall clock advances
Tick ==
    /\ now < MaxTick
    /\ now' = now + 1
    /\ UNCHANGED <<platform, pc, op, events, windowVisible, mode, filename, savePath,
                   hideWindow, windowID, windows, err, prompt, imageData, reqBody,
                   resp, result, fs, started, previous, ui>>

\* a call at a time that is an input
TakeScreenshot ==
    /\ \E m \in Modes, timestamp \in Timestamps : TakeScreenshotCall(m, timestamp)
    /\ UNCHANGED unfollowed

\* variant: the capture starts as soon as the window was told to hide
WindowHideNoSettle ==
    /\ pc = "ts_hide"
    /\ IF hideWindow
       THEN /\ events' = Append(events, Event("WindowHide", <<>>, 0))
            /\ windowVisible' = FALSE
            /\ pc' = "ts_capture"
       ELSE /\ pc' = "ts_capture"
            /\ UNCHANGED <<events, windowVisible>>
    /\ UNCHANGED <<platform, op, mode, filename, savePath, hideWindow, windowID, windows,
                   err, prompt, imageData, reqBody, resp, result>>
    /\ UNCHANGED unfollowed

\* if hideWindow { wailsRuntime.WindowHide(a.ctx) ...
WindowHide ==
    /\ pc = "ts_hide"
    /\ IF hideWindow
       THEN /\ events' = Append(events, Event("WindowHide", <<>>, 0))
            /\ windowVisible' = FALSE
            /\ pc' = "ts_settle"
       ELSE /\ pc' = "ts_capture"
            /\ UNCHANGED <<events, windowVisible>>
    /\ UNCHANGED <<platform, op, mode, filename, savePath, hideWindow, windowID, windows,
                   err, prompt, imageData, reqBody, resp, result>>
    /\ UNCHANGED unfollowed

\* ... time.Sleep(500 * time.Millisecond) }
SettleDelay ==
    /\ pc = "ts_settle"
    /\ events' = Append(events, Event("Sleep", <<>>, SettleDelayMs))
    /\ pc' = "ts_capture"
    /\ UNCHANGED <<platform, op, windowVisible, mode, filename, savePath, hideWindow,
                   windowID, windows, err, prompt, imageData, reqBody, resp, result>>
    /\ UNCHANGED unfollowed

\* _, err := captureScreenshot(mode, savePath): the call
CallCapture ==
    /\ pc = "ts_capture"
    /\ events' = Append(events, Event("captureScreenshot", <<mode, savePath>>, 0))
    /\ pc' = "cs_switch"
    /\ UNCHANGED <<platform, op, windowVisible, mode, filename, savePath, hideWindow,
                   windowID, windows, err, prompt, imageData, reqBody, resp, result>>
    /\ UNCHANGED unfollowed

\* if hideWindow { time.Sleep(100 * time.Millisecond) ...
PostCaptureDelay ==
    /\ pc = "ts_captured"
    /\ IF RestoreWindow
       THEN /\ events' = Append(events, Event("Sleep", <<>>, PostCaptureDelayMs))
            /\ pc' = "ts_show"
       ELSE /\ pc' = "ts_return"
            /\ UNCHANGED events
    /\ UNCHANGED <<platform, op, windowVisible, mode, filename, savePath, hideWindow,
                   windowID, windows, err, prompt, imageData, reqBody, resp, result>>
    /\ UNCHANGED unfollowed

\* ... wailsRuntime.WindowShow(a.ctx) }
WindowShow ==
    /\ pc = "ts_show"
    /\ events' = Append(events, Event("WindowShow", <<>>, 0))
    /\ windowVisible' = TRUE
    /\ pc' = "ts_return"
    /\ UNCHANGED <<platform, op, mode, filename, savePath, hideWindow, windowID, windows,
                   err, prompt, imageData, reqBody, resp, result>>
    /\ UNCHANGED unfollowed

\* variant: the destination is filled in on failure too
ScreenshotResultWithPath(e, path, name) ==
    [FilePath |-> path, FileName |-> name, Success |-> e.isNil, Error |-> e.msg]

\* the ScreenshotResult that is returned
ScreenshotResult(e, path, name) ==
    IF ~e.isNil
    THEN [FilePath |-> "", FileName |-> "", Success |-> FALSE, Error |-> e.msg]
    ELSE [FilePath |-> path, FileName |-> name, Success |-> TRUE, Error |-> <<>>]

\* if err != nil { return ... } return ...
TakeScreenshotReturn ==
    /\ pc = "ts_return"
    /\ result' = ScreenshotResult(err, savePath, filename)
    /\ pc' = "returned"
    /\ UNCHANGED <<platform, op, events, windowVisible, mode, filename, savePath,
                   hideWindow, windowID, windows, err, prompt, imageData, reqBody, resp>>
    /\ UNCHANGED unfollowed

-----------------------------------------------------------------------------
(* AnalyzeScreenshot, app.go 124-186 *)

DefaultPrompt == "Describe what you see in this screenshot in detail."

\* variant: the prompt is sent as given
EffectivePromptAsGiven(p) == p

\* if prompt == "" { prompt = "Describe ..." }
EffectivePrompt(p) == IF p = "" THEN DefaultPrompt ELSE p

\* reqBody := OllamaChatRequest{...}
ChatRequest(p, base64Image) ==
    [Model |-> "qwen3-vl:8b",
     Messages |-> << [Role |-> "user", Content |-> p, Images |-> <<base64Image>>] >>,
     Stream |-> FALSE]

\* AnalysisResult{Success: false, Error: fmt.Sprintf(...)}
AnalysisFailure(fragments) ==
    [Content |-> "", Thinking |-> "", Success |-> FALSE, Error |-> fragments, Duration |-> 0]

\* variant: the body is decoded before the status is looked at
AnalysisOutcomeParseFirst(r, duration) ==
    IF ~UnmarshalChat(r.body).err.isNil
    THEN AnalysisFailure(<<"Failed to parse response: ">> \o UnmarshalChat(r.body).err.msg)
    ELSE IF r.StatusCode # 200
    THEN AnalysisFailure(<<"Ollama returned status ", ToString(r.StatusCode), ": ", r.body.raw>>)
    ELSE [Content |-> UnmarshalChat(r.body).Message.Content,
          Thinking |-> UnmarshalChat(r.body).Message.Thinking,
          Success |-> TRUE, Error |-> <<>>, Duration |-> duration]

\* variant: the reasoning trace is dropped
AnalysisOutcomeNoThinking(r, duration) ==
    IF r.StatusCode # 200
    THEN AnalysisFailure(<<"Ollama returned status ", ToString(r.StatusCode), ": ", r.body.raw>>)
    ELSE IF ~UnmarshalChat(r.body).err.isNil
    THEN AnalysisFailure(<<"Failed to parse response: ">> \o UnmarshalChat(r.body).err.msg)
    ELSE [Content |-> UnmarshalChat(r.body).Message.Content,
          Thinking |-> "",
          Success |-> TRUE, Error |-> <<>>, Duration |-> duration]

\* the result once the body of the response has been read
AnalysisOutcome(r, duration) ==
    IF r.StatusCode # 200
    THEN AnalysisFailure(<<"Ollama returned status ", ToString(r.StatusCode), ": ", r.body.raw>>)
    ELSE IF ~UnmarshalChat(r.body).err.isNil
    THEN AnalysisFailure(<<"Failed to parse response: ">> \o UnmarshalChat(r.body).err.msg)
    ELSE [Content |-> UnmarshalChat(r.body).Message.Content,
          Thinking |-> UnmarshalChat(r.body).Message.Thinking,
          Success |-> TRUE, Error |-> <<>>, Duration |-> duration]

\* the call
AnalyzeScreenshot ==
    /\ CanCall
    /\ \E p \in Prompts : prompt' = p
    /\ op' = "AnalyzeScreenshot"
    /\ events' = <<Event("call", <<prompt'>>, 0)>>
    /\ pc' = "an_read"
    /\ mode' = ""
    /\ filename' = ""
    /\ savePath' = ""
    /\ hideWindow' = FALSE
    /\ windowID' = ""
    /\ windows' = <<>>
    /\ err' = NoErr
    /\ imageData' = <<>>
    /\ reqBody' = NoRequest
    /\ resp' = NoResp
    /\ result' = NoResult
    /\ UNCHANGED <<platform, windowVisible>>
    /\ UNCHANGED unfollowed

\* os.ReadFile(imagePath); on success the image is encoded, the prompt
\* defaulted and the request built (json.Marshal of a struct of strings and a
\* bool does not fail)
ReadImage ==
    /\ pc = "an_read"
    /\ events' = Append(events, Event("ReadFile", <<>>, 0))
    /\ \/ /\ err' = Errorf(<<"open: no such file or directory">>)
          /\ result' = AnalysisFailure(<<"Failed to read image: ">> \o err'.msg)
          /\ pc' = "returned"
          /\ UNCHANGED <<prompt, imageData, reqBody>>
       \/ \E data \in Images :
             /\ imageData' = data
             /\ err' = NoErr
             /\ prompt' = EffectivePrompt(prompt)
             /\ reqBody' = ChatRequest(prompt', EncodeToString(data))
             /\ pc' = "an_post"
             /\ UNCHANGED result
    /\ UNCHANGED <<platform, op, windowVisible, mode, filename, savePath, hideWindow,
                   windowID, windows, resp>>
    /\ UNCHANGED unfollowed

\* variant: a request that failed is sent once more
PostChatRetrying ==
    /\ pc = "an_post"
    /\ events' = Append(events, Event("POST", <<ollamaEndpoint \o "/api/chat">>, 180000))
    /\ \/ \E e \in TransportErrors :
             /\ err' = Errorf(<<"Post \"", ollamaEndpoint \o "/api/chat", "\": ", e>>)
             /\ IF Count(events, "POST") = 0
                THEN /\ pc' = "an_post"
                     /\ UNCHANGED result
                ELSE /\ result' = AnalysisFailure(<<"Ollama request failed: ">> \o err'.msg)
                     /\ pc' = "returned"
             /\ UNCHANGED resp
       \/ \E r \in Responses(ChatBodies) :
             /\ resp' = r
             /\ err' = NoErr
             /\ pc' = "an_body"
             /\ UNCHANGED result
    /\ UNCHANGED <<platform, op, windowVisible, mode, filename, savePath, hideWindow,
                   windowID, windows, prompt, imageData, reqBody>>
    /\ UNCHANGED unfollowed

\* client.Post(a.ollamaEndpoint+"/api/chat", "application/json", jsonData)
PostChat ==
    /\ pc = "an_post"
    /\ events' = Append(events, Event("POST", <<ollamaEndpoint \o "/api/chat">>, 180000))
    /\ \/ \E e \in TransportErrors :
             /\ err' = Errorf(<<"Post \"", ollamaEndpoint \o "/api/chat", "\": ", e>>)
             /\ result' = AnalysisFailure(<<"Ollama request failed: ">> \o err'.msg)
             /\ pc' = "returned"
             /\ UNCHANGED resp
       \/ \E r \in Responses(ChatBodies) :
             /\ resp' = r
             /\ err' = NoErr
             /\ pc' = "an_body"
             /\ UNCHANGED result
    /\ UNCHANGED <<platform, op, windowVisible, mode, filename, savePath, hideWindow,
                   windowID, windows, prompt, imageData, reqBody>>
    /\ UNCHANGED unfollowed

\* io.ReadAll(resp.Body), the status check, json.Unmarshal and the return
ReadChatResponse ==
    /\ pc = "an_body"
    /\ IF ~resp.readOk
       THEN /\ err' = Errorf(<<"unexpected EOF">>)
            /\ result' = AnalysisFailure(<<"Failed to read response: ">> \o err'.msg)
       ELSE /\ err' = IF resp.StatusCode = 200 THEN UnmarshalChat(resp.body).err ELSE NoErr
            /\ \E duration \in Durations :
                  result' = AnalysisOutcome(resp, duration)
    /\ pc' = "returned"
    /\ UNCHANGED <<platform, op, events, windowVisible, mode, filename, savePath,
                   hideWindow, windowID, windows, prompt, imageData, reqBody, resp>>
    /\ UNCHANGED unfollowed

-----------------------------------------------------------------------------
(* CheckOllamaStatus, app.go 252-284 *)

\* the substring that marks the model family
ModelFamily == <<"q", "w", "e", "n", "3", "-", "v", "l">>

\* for _, m := range tagsResp.Models { if strings.Contains(...) ... }
ModelLoaded(b) ==
    /\ UnmarshalTags(b).err.isNil
    /\ \E i \in 1..Len(UnmarshalTags(b).Models) :
          Contains(UnmarshalTags(b).Models[i], ModelFamily)

\* variant: the failure is not recorded in the map
StatusUnreachableSilent(res) == res

\* result["error"] = "Ollama is not running"
StatusUnreachable(res) ==
    [available |-> res.available, modelLoaded |-> res.modelLoaded,
     error |-> "Ollama is not running"]

\* the call, and result := map[string]interface{}{...}
CheckOllamaStatus ==
    /\ CanCall
    /\ op' = "CheckOllamaStatus"
    /\ events' = <<Event("call", <<>>, 0)>>
    /\ pc' = "ck_get"
    /\ result' = [available |-> FALSE, modelLoaded |-> FALSE]
    /\ mode' = ""
    /\ filename' = ""
    /\ savePath' = ""
    /\ hideWindow' = FALSE
    /\ windowID' = ""
    /\ windows' = <<>>
    /\ err' = NoErr
    /\ prompt' = ""
    /\ imageData' = <<>>
    /\ reqBody' = NoRequest
    /\ resp' = NoResp
    /\ UNCHANGED <<platform, windowVisible>>
    /\ UNCHANGED unfollowed

\* variant: only a 200 answer counts as available
GetTagsOkOnly ==
    /\ pc = "ck_get"
    /\ events' = Append(events, Event("GET", <<ollamaEndpoint \o "/api/tags">>, 5000))
    /\ \/ \E e \in TransportErrors :
             /\ err' = Errorf(<<"Get \"", ollamaEndpoint \o "/api/tags", "\": ", e>>)
             /\ result' = StatusUnreachable(result)
             /\ pc' = "returned"
             /\ UNCHANGED resp
       \/ \E r \in Responses(TagsBodies) :
             /\ resp' = r
             /\ err' = NoErr
             /\ result' = [result EXCEPT !.available = (r.StatusCode = 200)]
             /\ pc' = "ck_body"
    /\ UNCHANGED <<platform, op, windowVisible, mode, filename, savePath, hideWindow,
                   windowID, windows, prompt, imageData, reqBody>>
    /\ UNCHANGED unfollowed

\* client.Get(a.ollamaEndpoint + "/api/tags") and result["available"] = true
GetTags ==
    /\ pc = "ck_get"
    /\ events' = Append(events, Event("GET", <<ollamaEndpoint \o "/api/tags">>, 5000))
    /\ \/ \E e \in TransportErrors :
             /\ err' = Errorf(<<"Get \"", ollamaEndpoint \o "/api/tags", "\": ", e>>)
             /\ result' = StatusUnreachable(result)
             /\ pc' = "returned"
             /\ UNCHANGED resp
       \/ \E r \in Responses(TagsBodies) :
             /\ resp' = r
             /\ err' = NoErr
             /\ result' = [result EXCEPT !.available = TRUE]
             /\ pc' = "ck_body"
    /\ UNCHANGED <<platform, op, windowVisible, mode, filename, savePath, hideWindow,
                   windowID, windows, prompt, imageData, reqBody>>
    /\ UNCHANGED unfollowed

\* body, _ := io.ReadAll(resp.Body); the decode, the loop and the return
ReadTags ==
    /\ pc = "ck_body"
    /\ result' = IF ModelLoaded(resp.body)
                 THEN [result EXCEPT !.modelLoaded = TRUE]
                 ELSE result
    /\ pc' = "returned"
    /\ UNCHANGED <<platform, op, events, windowVisible, mode, filename, savePath,
                   hideWindow, windowID, windows, err, prompt, imageData, reqBody, resp>>
    /\ UNCHANGED unfollowed

-----------------------------------------------------------------------------
(* The file system and the wall clock, as the gallery methods see them *)

File(t) == [isDir |-> FALSE, modTime |-> t]

Directory(t) == [isDir |-> TRUE, modTime |-> t]

\* a directory next to the screenshot directory whose name begins with its name
SiblingDirChars ==
    <<"/", "h", "o", "m", "e", "/", "u", "s", "e", "r", "/", "S", "c", "r",
      "e", "e", "n", "s", "h", "o", "t", "s", "2">>

\* os.Getwd(), which filepath.Abs joins a relative path to
WorkingDir == <<"/", "h", "o", "m", "e", "/", "u", "s", "e", "r">>

\* dir + "/" + name, as a caller writes it
Path(dir, name) == dir \o <<"/">> \o name

\* the elements of a.screenshotDir
ScreenshotDirElements == Elements(ScreenshotDirChars)

\* the file system when the application has started for the first time:
\* startup has made the screenshot directory, and the sibling holds a file
FreshDisk ==
    (ScreenshotDirElements :> Directory(0))
      @@ (Elements(SiblingDirChars) :> Directory(0))
      @@ (Elements(Path(SiblingDirChars, <<"s", "e", "c", "r", "e", "t", ".", "p", "n", "g">>)) :> File(0))

\* a later start: the directory holds two images written in the same second
\* (one with an upper-case extension), a screenshot written a second later,
\* a text file and a subdirectory named like an image
UsedDisk ==
    FreshDisk
      @@ (Append(ScreenshotDirElements, <<"o", "l", "d", ".", "P", "N", "G">>) :> File(0))
      @@ (Append(ScreenshotDirElements, <<"s", "h", "o", "t", ".", "j", "p", "e", "g">>) :> File(1))
      @@ (Append(ScreenshotDirElements, FileName(Stamp(Second(MaxTick)), "full"))
            :> File(MaxTick))
      @@ (Append(ScreenshotDirElements, <<"n", "o", "t", "e", "s", ".", "t", "x", "t">>) :> File(0))
      @@ (Append(ScreenshotDirElements, <<"d", "i", "r", ".", "j", "p", "g">>) :> Directory(0))

Disks == {FreshDisk, UsedDisk}

\* the directory holds one screenshot, taken earlier in the current second
GalleryDisk ==
    FreshDisk
      @@ (Append(ScreenshotDirElements, FileName(Stamp(Second(MaxTick)), "full"))
            :> File(MaxTick))

\* what lies under a directory
Below(disk, dir) ==
    {p \in DOMAIN disk : Len(p) > Len(dir) /\ SubSeq(p, 1, Len(dir)) = dir}

\* the entries of a directory
Entries(disk, dir) == {p \in Below(disk, dir) : Len(p) = Len(dir) + 1}

\* the last element of a path
Base(p) == p[Len(p)]

\* the ASCII characters from 32 to 95
UpToUnderscore ==
    <<" ", "!", "\"", "#", "$", "%", "&", "'", "(", ")", "*", "+", ",",
      "-", ".", "/", "0", "1", "2", "3", "4", "5", "6", "7", "8", "9", ":",
      ";", "<", "=", ">", "?", "@", "A", "B", "C", "D", "E", "F", "G", "H",
      "I", "J", "K", "L", "M", "N", "O", "P", "Q", "R", "S", "T", "U", "V",
      "W", "X", "Y", "Z", "[", "\\", "]", "^", "_">>

\* the ASCII characters from 97 to 126
FromLowerA ==
    <<"a", "b", "c", "d", "e", "f", "g", "h", "i", "j", "k", "l", "m", "n",
      "o", "p", "q", "r", "s", "t", "u", "v", "w", "x", "y", "z", "{", "|",
      "}", "~">>

\* the byte a character is
Code(c) ==
    IF \E i \in 1..Len(UpToUnderscore) : UpToUnderscore[i] = c
    THEN 31 + CHOOSE i \in 1..Len(UpToUnderscore) : UpToUnderscore[i] = c
    ELSE 96 + CHOOSE i \in 1..Len(FromLowerA) : FromLowerA[i] = c

\* a > b on Go strings: bytewise, the longer of two that agree being greater
Greater(a, b) ==
    \E i \in 1..Len(a) :
       /\ i - 1 <= Len(b)
       /\ SubSeq(a, 1, i - 1) = SubSeq(b, 1, i - 1)
       /\ i > Len(b) \/ Code(a[i]) > Code(b[i])

\* the orders of the members of a set
Orders(S) ==
    {l \in [1..Cardinality(S) -> S] : \A i, j \in 1..Cardinality(S) : l[i] = l[j] => i = j}

\* filepath.Abs: a rooted path is cleaned, any other path is joined to the
\* working directory, which os.Getwd may fail to give
Abs(path, cwdOk) ==
    IF path # <<>> /\ Head(path) = "/" THEN [ok |-> TRUE, path |-> Clean(path)]
    ELSE IF cwdOk THEN [ok |-> TRUE, path |-> Join(WorkingDir, path)]
    ELSE [ok |-> FALSE, path |-> <<>>]

\* os.Remove: a file, or a directory that is empty
Remove(disk, path) ==
    IF Elements(path) \notin DOMAIN disk
    THEN [ok |-> FALSE, errText |-> "no such file or directory", disk |-> disk]
    ELSE IF disk[Elements(path)].isDir /\ Below(disk, Elements(path)) # {}
    THEN [ok |-> FALSE, errText |-> "directory not empty", disk |-> disk]
    ELSE [ok |-> TRUE, errText |-> "",
          disk |-> [p \in DOMAIN disk \ {Elements(path)} |-> disk[p]]]

\* the paths a caller passes to DeleteScreenshot
DeletePaths ==
    { Path(ScreenshotDirChars, <<"o", "l", "d", ".", "P", "N", "G">>),
      Path(ScreenshotDirChars, <<"s", "h", "o", "t", ".", "j", "p", "e", "g">>),
      Path(ScreenshotDirChars, FileName(Stamp(Second(MaxTick)), "full")),
      Path(ScreenshotDirChars, <<"n", "o", "t", "e", "s", ".", "t", "x", "t">>),
      Path(ScreenshotDirChars, <<"d", "i", "r", ".", "j", "p", "g">>),
      Path(SiblingDirChars, <<"s", "e", "c", "r", "e", "t", ".", "p", "n", "g">>),
      Path(ScreenshotDirChars, <<".", ".", "/", "S", "c", "r", "e", "e", "n", "s", "h", "o", "t", "s", "2", "/", "s", "e", "c", "r", "e", "t", ".", "p", "n", "g">>),
      ScreenshotDirChars,
      ScreenshotDirChars \o <<"/">>,
      SiblingDirChars,
      <<"S", "c", "r", "e", "e", "n", "s", "h", "o", "t", "s", "/", "o", "l", "d", ".", "P", "N", "G">>,
      <<"s", "e", "c", "r", "e", "t", ".", "p", "n", "g">>,
      <<"/", "e", "t", "c", "/", "p", "a", "s", "s", "w", "d">> }

\* ScreenshotResult{Success: false, Error: ...}
DeleteFailure(fragments) ==
    [FilePath |-> <<>>, FileName |-> <<>>, Success |-> FALSE, Error |-> fragments]

\* strings.HasPrefix(absPath, a.screenshotDir)
PathAccepted(path) == HasPrefix(path, ScreenshotDirChars)

\* DeleteScreenshot from the call to the return: the file system it leaves,
\* what it returns and what it did
DeleteOutcome(disk, filePath, cwdOk) ==
    LET abs     == Abs(filePath, cwdOk)
        removed == Remove(disk, abs.path)
        call    == Event("call", filePath, 0)
    IN  IF ~abs.ok \/ ~PathAccepted(abs.path)
        THEN [disk |-> disk, events |-> <<call>>,
              result |-> DeleteFailure(<<"Invalid file path">>)]
        ELSE IF ~removed.ok
        THEN [disk |-> disk, events |-> <<call, Event("Remove", abs.path, 0)>>,
              result |-> DeleteFailure(<<"Failed to delete: ", removed.errText>>)]
        ELSE [disk |-> removed.disk, events |-> <<call, Event("Remove", abs.path, 0)>>,
              result |-> [FilePath |-> abs.path, FileName |-> <<>>,
                          Success |-> TRUE, Error |-> <<>>]]

\* the locals of the calls followed statement by statement, at rest
AtRest ==
    /\ mode' = ""
    /\ filename' = ""
    /\ savePath' = ""
    /\ hideWindow' = FALSE
    /\ windowID' = ""
    /\ windows' = <<>>
    /\ err' = NoErr
    /\ prompt' = ""
    /\ imageData' = <<>>
    /\ reqBody' = NoRequest
    /\ resp' = NoResp

\* a call of DeleteScreenshot
DeleteScreenshot ==
    /\ CanCall
    /\ \E filePath \in DeletePaths :
       \E cwdOk \in (IF Head(filePath) = "/" THEN {TRUE} ELSE BOOLEAN) :
          LET outcome == DeleteOutcome(fs, filePath, cwdOk) IN
          /\ fs' = outcome.disk
          /\ events' = outcome.events
          /\ result' = outcome.result
    /\ op' = "DeleteScreenshot"
    /\ pc' = "returned"
    /\ AtRest
    /\ UNCHANGED <<platform, windowVisible, now, started, previous, ui>>

\* filepath.Ext: from the last "." of the name on, or nothing
Ext(name) ==
    IF \E i \in 1..Len(name) : name[i] = "."
    THEN LET dot == CHOOSE i \in 1..Len(name) :
                       name[i] = "." /\ \A j \in (i + 1)..Len(name) : name[j] # "."
         IN  SubSeq(name, dot, Len(name))
    ELSE <<>>

\* strings.ToLower: the letters from A to Z are moved by 32
ToLower(cs) ==
    [i \in 1..Len(cs) |->
        IF Code(cs[i]) >= 65 /\ Code(cs[i]) <= 90
        THEN FromLowerA[Code(cs[i]) - 64]
        ELSE cs[i]]

\* ext != ".png" && ext != ".jpg" && ext != ".jpeg"
ImageExts == {<<".", "p", "n", "g">>, <<".", "j", "p", "g">>,
              <<".", "j", "p", "e", "g">>}

\* time.Format(time.RFC3339) of a tick of the minute after noon of 2024-01-01
RFC3339(t) ==
    <<"2", "0", "2", "4", "-", "0", "1", "-", "0", "1", "T", "1", "2", ":", "0", "0", ":">>
        \o TwoDigits(Second(t)) \o <<"Z">>

\* os.ReadDir: the entries of the directory, sorted by filename
ReadDir(disk, dir) ==
    IF Elements(dir) \notin DOMAIN disk \/ ~disk[Elements(dir)].isDir THEN <<>>
    ELSE LET entries == Entries(disk, Elements(dir)) IN
         [i \in 1..Cardinality(entries) |->
            CHOOSE p \in entries :
               Cardinality({q \in entries : Greater(Base(p), Base(q))}) = i - 1]

\* the entries the loop keeps: no directories, image extensions only
IsScreenshot(disk, p) == ~disk[p].isDir /\ ToLower(Ext(Base(p))) \in ImageExts

\* ScreenshotInfo{FileName, FilePath, ModTime} of an entry (Size is left out)
ScreenshotInfo(disk, p) ==
    [FileName |-> Base(p),
     FilePath |-> Join(ScreenshotDirChars, Base(p)),
     ModTime  |-> RFC3339(disk[p].modTime)]

\* the slice before it is sorted
Appended(disk) ==
    LET kept == SelectSeq(ReadDir(disk, ScreenshotDirChars), LAMBDA p : IsScreenshot(disk, p))
    IN  [i \in 1..Len(kept) |-> ScreenshotInfo(disk, kept[i])]

\* entry.Info() of the entries that are kept, with the time each was modified
Infos(disk) ==
    LET kept == SelectSeq(ReadDir(disk, ScreenshotDirChars), LAMBDA p : IsScreenshot(disk, p))
    IN  [i \in 1..Len(kept) |-> Event("Info", kept[i], disk[kept[i]].modTime)]

\* sort.Slice(screenshots, less) with less(i, j) = ModTime[i] > ModTime[j]:
\* any order of the slice in which no element is less than one before it
SortSlice(slice) ==
    {l \in Orders({slice[i] : i \in 1..Len(slice)}) :
        \A i, j \in 1..Len(l) : i < j => ~Greater(l[j].ModTime, l[i].ModTime)}

\* a call of GetScreenshots
GetScreenshots ==
    /\ CanCall
    /\ result' \in SortSlice(Appended(fs))
    /\ events' = <<Event("call", <<>>, 0)>> \o Infos(fs)
    /\ op' = "GetScreenshots"
    /\ pc' = "returned"
    /\ AtRest
    /\ UNCHANGED <<platform, windowVisible, now, fs, started, previous, ui>>

-----------------------------------------------------------------------------
(* App.tsx: the component and its handlers *)

\* null, where a ScreenshotInfo is expected
NoScreenshot == [FileName |-> <<>>, FilePath |-> <<>>, ModTime |-> <<>>]

\* null, where an AnalysisResult is expected
NoAnalysis == [success |-> FALSE, filePath |-> <<>>, null |-> TRUE]

\* null, where an OllamaStatus is expected
NoStatus == [available |-> FALSE, modelLoaded |-> FALSE, null |-> TRUE]

\* the initial values of the useState hooks
UseState ==
    /\ screenshots = <<>>
    /\ selectedScreenshot = NoScreenshot
    /\ analysisResult = NoAnalysis
    /\ isCapturing = FALSE
    /\ isAnalyzing = FALSE
    /\ ollamaStatus = NoStatus

-----------------------------------------------------------------------------
Init ==
    /\ platform \in Platforms
    /\ pc = "idle"
    /\ op = "none"
    /\ events = <<>>
    /\ windowVisible = TRUE
    /\ mode = ""
    /\ filename = ""
    /\ savePath = ""
    /\ hideWindow = FALSE
    /\ windowID = ""
    /\ windows = <<>>
    /\ err = NoErr
    /\ prompt = ""
    /\ imageData = <<>>
    /\ reqBody = NoRequest
    /\ resp = NoResp
    /\ result = NoResult
    /\ now = 0
    /\ fs = FreshDisk
    /\ started = 0
    /\ previous = NoCall
    /\ UseState
    /\ calls = {}

Next ==
    \/ TakeScreenshot
    \/ WindowHide
    \/ SettleDelay
    \/ CallCapture
    \/ CaptureSwitch
    \/ GetFrontWindowID
    \/ CaptureExec
    \/ PostCaptureDelay
    \/ WindowShow
    \/ TakeScreenshotReturn
    \/ AnalyzeScreenshot
    \/ ReadImage
    \/ PostChat
    \/ ReadChatResponse
    \/ CheckOllamaStatus
    \/ GetTags
    \/ ReadTags

Spec == Init /\ [][Next]_vars

\* TakeScreenshot calls under a wall clock
NextCapture ==
    \/ TakeScreenshotNow
    \/ Tick
    \/ WindowHide
    \/ SettleDelay
    \/ CallCapture
    \/ CaptureSwitch
    \/ GetFrontWindowID
    \/ CaptureExec
    \/ PostCaptureDelay
    \/ WindowShow
    \/ TakeScreenshotReturn

SpecCapture == Init /\ [][NextCapture]_vars

\* the gallery methods on a Unix file system that may have been used before
InitStore ==
    /\ platform = "linux"
    /\ pc = "idle"
    /\ op = "none"
    /\ events = <<>>
    /\ windowVisible = TRUE
    /\ mode = ""
    /\ filename = ""
    /\ savePath = ""
    /\ hideWindow = FALSE
    /\ windowID = ""
    /\ windows = <<>>
    /\ err = NoErr
    /\ prompt = ""
    /\ imageData = <<>>
    /\ reqBody = NoRequest
    /\ resp = NoResp
    /\ result = NoResult
    /\ now = MaxTick
    /\ fs \in Disks
    /\ started = 0
    /\ previous = NoCall
    /\ UseState
    /\ calls = {}

NextStore ==
    \/ GetScreenshots
    \/ DeleteScreenshot

SpecStore == InitStore /\ [][NextStore]_vars

-----------------------------------------------------------------------------
(* App.tsx: handlers, one step from an await (or the click) to the next *)

\* what no handler of the component touches
backend == <<platform, pc, op, events, windowVisible, mode, filename, savePath,
             hideWindow, windowID, windows, err, prompt, imageData, reqBody, resp,
             result, now, started, previous>>

\* a handler waiting for a bound method to return: the values it closed over
Call(handler, await, m, filePath, closure) ==
    [handler |-> handler, await |-> await, mode |-> m, filePath |-> filePath,
     closure |-> closure]

\* the two calls of the effect that runs when the component is mounted
MountCalls ==
    {Call("useEffect", "loadScreenshots", "", <<>>, NoScreenshot),
     Call("useEffect", "CheckOllamaStatus", "", <<>>, NoScreenshot)}

\* the calls of a handler that are waiting
Waiting(handler) == {c \in calls : c.handler = handler}

\* the file a successful capture leaves on the disk
Written(disk, m, t) ==
    LET p == Elements(Path(ScreenshotDirChars, FileName(Stamp(Second(t)), m)))
    IN  [q \in DOMAIN disk \cup {p} |-> IF q = p THEN File(t) ELSE disk[q]]

\* the values CheckOllamaStatus returns
Statuses ==
    {[available |-> FALSE, modelLoaded |-> FALSE, null |-> FALSE],
     [available |-> TRUE, modelLoaded |-> FALSE, null |-> FALSE],
     [available |-> TRUE, modelLoaded |-> TRUE, null |-> FALSE]}

\* the values AnalyzeScreenshot returns for a file: a failure when the file
\* cannot be read, and otherwise what the model server makes of it
Analyses(disk, filePath) ==
    {[success |-> ok, filePath |-> filePath, null |-> FALSE] :
        ok \in IF Elements(filePath) \in DOMAIN disk THEN BOOLEAN ELSE {FALSE}}

\* the modes of the capture buttons that are clicked; the Active Window
\* button differs from the Selection button in its mode only
Buttons == {"full", "selection"}

\* a click on one of the capture buttons (disabled={isCapturing})
handleCapture ==
    /\ ~isCapturing
    /\ Cardinality(calls) < MaxCalls
    /\ \E m \in Buttons :
          calls' = calls \cup {Call("handleCapture", "TakeScreenshot", m, <<>>, NoScreenshot)}
    /\ isCapturing' = TRUE
    /\ UNCHANGED <<backend, fs, screenshots, selectedScreenshot, analysisResult,
                   isAnalyzing, ollamaStatus>>

\* TakeScreenshot returns to handleCapture
TakeScreenshotReturns ==
    \E c \in calls :
       /\ c.await = "TakeScreenshot"
       /\ \/ /\ fs' = Written(fs, c.mode, now)
             /\ calls' = (calls \ {c}) \cup
                            {Call(c.handler, "loadScreenshots", c.mode, <<>>, NoScreenshot)}
             /\ UNCHANGED isCapturing
          \/ /\ calls' = calls \ {c}
             /\ isCapturing' = FALSE
             /\ UNCHANGED fs
       /\ UNCHANGED <<backend, screenshots, selectedScreenshot, analysisResult,
                      isAnalyzing, ollamaStatus>>

\* GetScreenshots returns to loadScreenshots, which returns to its caller
loadScreenshots ==
    \E c \in calls :
       /\ c.await = "loadScreenshots"
       /\ screenshots' \in SortSlice(Appended(fs))
       /\ calls' = (calls \ {c}) \cup
                      (IF c.handler = "handleCapture"
                       THEN {Call(c.handler, "GetScreenshots", c.mode, <<>>, NoScreenshot)}
                       ELSE {})
       /\ UNCHANGED <<backend, fs, selectedScreenshot, analysisResult, isCapturing,
                      isAnalyzing, ollamaStatus>>

\* GetScreenshots returns to handleCapture
GetScreenshotsReturns ==
    \E c \in calls :
       /\ c.await = "GetScreenshots"
       /\ \E list \in SortSlice(Appended(fs)) :
             selectedScreenshot' = IF Len(list) > 0 THEN list[1] ELSE selectedScreenshot
       /\ isCapturing' = FALSE
       /\ calls' = calls \ {c}
       /\ UNCHANGED <<backend, fs, screenshots, analysisResult, isAnalyzing, ollamaStatus>>

\* a click on the Analyze button, which is rendered when a screenshot is
\* selected (disabled={isAnalyzing || !ollamaStatus?.modelLoaded})
handleAnalyze ==
    /\ selectedScreenshot # NoScreenshot
    /\ ~isAnalyzing
    /\ ollamaStatus.modelLoaded
    /\ Cardinality(calls) < MaxCalls
    /\ isAnalyzing' = TRUE
    /\ analysisResult' = NoAnalysis
    /\ calls' = calls \cup {Call("handleAnalyze", "AnalyzeScreenshot", "",
                                  selectedScreenshot.FilePath, NoScreenshot)}
    /\ UNCHANGED <<backend, fs, screenshots, selectedScreenshot, isCapturing, ollamaStatus>>

\* AnalyzeScreenshot returns to handleAnalyze
AnalyzeScreenshotReturns ==
    \E c \in calls :
       /\ c.await = "AnalyzeScreenshot"
       /\ analysisResult' \in Analyses(fs, c.filePath)
       /\ isAnalyzing' = FALSE
       /\ calls' = calls \ {c}
       /\ UNCHANGED <<backend, fs, screenshots, selectedScreenshot, isCapturing, ollamaStatus>>

\* a click on the delete button of a gallery item; the handler closes over
\* the selectedScreenshot of the render the click happened in
handleDelete ==
    /\ Cardinality(calls) < MaxCalls
    /\ \E i \in 1..Len(screenshots) :
          calls' = calls \cup {Call("handleDelete", "DeleteScreenshot", "",
                                    screenshots[i].FilePath, selectedScreenshot)}
    /\ UNCHANGED <<backend, fs, screenshots, selectedScreenshot, analysisResult,
                   isCapturing, isAnalyzing, ollamaStatus>>

\* DeleteScreenshot returns to handleDelete
DeleteScreenshotReturns ==
    \E c \in calls :
       /\ c.await = "DeleteScreenshot"
       /\ LET outcome == DeleteOutcome(fs, c.filePath, TRUE) IN
          /\ fs' = outcome.disk
          /\ IF outcome.result.Success
             THEN /\ calls' = (calls \ {c}) \cup
                                 {Call(c.handler, "loadScreenshots", "", c.filePath, c.closure)}
                  /\ IF c.closure.FilePath = c.filePath
                     THEN /\ selectedScreenshot' = NoScreenshot
                          /\ analysisResult' = NoAnalysis
                     ELSE UNCHANGED <<selectedScreenshot, analysisResult>>
             ELSE /\ calls' = calls \ {c}
                  /\ UNCHANGED <<selectedScreenshot, analysisResult>>
       /\ UNCHANGED <<backend, screenshots, isCapturing, isAnalyzing, ollamaStatus>>

\* CheckOllamaStatus returns to the effect
CheckOllamaStatusReturns ==
    \E c \in calls :
       /\ c.await = "CheckOllamaStatus"
       /\ ollamaStatus' \in Statuses
       /\ calls' = calls \ {c}
       /\ UNCHANGED <<backend, fs, screenshots, selectedScreenshot, analysisResult,
                      isCapturing, isAnalyzing>>

\* a click on a gallery item
SelectScreenshot ==
    /\ \E i \in 1..Len(screenshots) : selectedScreenshot' = screenshots[i]
    /\ UNCHANGED <<backend, fs, screenshots, analysisResult, isCapturing, isAnalyzing,
                   ollamaStatus, calls>>

\* the component is mounted, the directory being empty or holding a screenshot
InitUI ==
    /\ platform = "linux"
    /\ pc = "idle"
    /\ op = "none"
    /\ events = <<>>
    /\ windowVisible = TRUE
    /\ mode = ""
    /\ filename = ""
    /\ savePath = ""
    /\ hideWindow = FALSE
    /\ windowID = ""
    /\ windows = <<>>
    /\ err = NoErr
    /\ prompt = ""
    /\ imageData = <<>>
    /\ reqBody = NoRequest
    /\ resp = NoResp
    /\ result = NoResult
    /\ now = MaxTick
    /\ fs \in {FreshDisk, GalleryDisk}
    /\ started = 0
    /\ previous = NoCall
    /\ UseState
    /\ calls = MountCalls

NextUI ==
    \/ handleCapture
    \/ TakeScreenshotReturns
    \/ loadScreenshots
    \/ GetScreenshotsReturns
    \/ handleAnalyze
    \/ AnalyzeScreenshotReturns
    \/ handleDelete
    \/ DeleteScreenshotReturns
    \/ CheckOllamaStatusReturns
    \/ SelectScreenshot

SpecUI == InitUI /\ [][NextUI]_vars

-----------------------------------------------------------------------------
(* Properties of TakeScreenshot *)

Returned(method) == op = method /\ pc = "returned"

\* every event of kind a comes after some event of kind b
Follows(evs, a, b) ==
    \A i \in Positions(evs, a) : \E j \in Positions(evs, b) : j < i

\* the argument list of the call being followed
CallArgs == events[1].cmd

C3_TwoOutcomes ==
    (Returned("TakeScreenshot") /\ mode \in ValidModes) =>
        \/ /\ err.isNil
           /\ result.Success
           /\ IsEmptyText(result.Error)
           /\ result.FileName = filename
           /\ result.FilePath = screenshotDir \o "/" \o filename
           /\ filename = "screenshot_" \o events[2].cmd[1] \o "_" \o CallArgs[1] \o ".png"
        \/ /\ ~err.isNil
           /\ ~result.Success
           /\ ~IsEmptyText(result.Error)
           /\ result.Error = err.msg
           /\ result.FilePath = ""
           /\ result.FileName = ""

\* a capture with a valid mode failed with a tool that printed nothing
C3_Witness ==
    /\ Returned("TakeScreenshot")
    /\ mode \in ValidModes
    /\ ~result.Success
    /\ result.Error[Len(result.Error)] = ""

\* C4: for a mode other than full, selection and focused, on every backend,
\* captureScreenshot starts no external process and returns the invalid-mode
\* error, and TakeScreenshot returns that message with Success false, the
\* window never hidden nor shown.
C4_InvalidMode ==
    (op = "TakeScreenshot" /\ mode \notin ValidModes) =>
        /\ Count(events, "exec") = 0
        /\ Count(events, "WindowHide") = 0
        /\ Count(events, "WindowShow") = 0
        /\ windowVisible
        /\ Count(events, "captureReturned") = 1 =>
              /\ ~err.isNil
              /\ err.msg = <<"invalid mode ", Quote(mode), ": use full, selection, or focused">>
        /\ pc = "returned" =>
              /\ ~result.Success
              /\ result.Error = <<"invalid mode ", Quote(mode), ": use full, selection, or focused">>
              /\ Count(events, "captureScreenshot") = 1

\* TakeScreenshot("window") has returned on the CGWindowID backend
C4_Witness ==
    /\ Returned("TakeScreenshot")
    /\ mode = "window"
    /\ platform = "darwin_cgwindow"
    /\ ~result.Success

-----------------------------------------------------------------------------
(* Properties of AnalyzeScreenshot and CheckOllamaStatus *)

\* the request of the call being followed has been sent
Posted == op = "AnalyzeScreenshot" /\ Count(events, "POST") > 0

\* C5: once AnalyzeScreenshot has sent its request, the request holds one
\* message whose content is not empty: the default prompt when the caller's
\* prompt was empty, the caller's prompt otherwise.
C5_ContentNeverEmpty ==
    Posted =>
        /\ Len(reqBody.Messages) = 1
        /\ reqBody.Messages[1].Content # ""
        /\ reqBody.Messages[1].Content =
              IF CallArgs[1] = ""
              THEN "Describe what you see in this screenshot in detail."
              ELSE CallArgs[1]

\* a request has been sent for a call with the empty prompt
C5_Witness ==
    /\ Posted
    /\ CallArgs[1] = ""
    /\ reqBody.Messages[1].Content = DefaultPrompt

\* where a returned AnalyzeScreenshot call stopped being served, from what
\* the file system and the endpoint did
ReadFailed == Count(events, "ReadFile") = 1 /\ Count(events, "POST") = 0

TransportFailed == Count(events, "POST") = 1 /\ resp = NoResp

Answered == Count(events, "POST") = 1 /\ resp # NoResp

\* the first fragment of an error message: the literal the format starts with
MessageClass(res) == IF res.Error = <<>> THEN "" ELSE res.Error[1]

\* C6 as stated: a failed AnalyzeScreenshot reports the first failing stage
\* of four: the image is unreadable (and nothing is sent), the request
\* failed in transport, the status is not 200 (code and raw body in the
\* message), the 200 body does not parse.
C6_FourStages ==
    (Returned("AnalyzeScreenshot") /\ ~result.Success) =>
        \/ /\ ReadFailed
           /\ MessageClass(result) = "Failed to read image: "
        \/ /\ TransportFailed
           /\ MessageClass(result) = "Ollama request failed: "
        \/ /\ Answered
           /\ resp.StatusCode # 200
           /\ result.Error = <<"Ollama returned status ", ToString(resp.StatusCode),
                               ": ", resp.body.raw>>
        \/ /\ Answered
           /\ resp.StatusCode = 200
           /\ MessageClass(result) = "Failed to parse response: "

\* C6 as amended: a fifth stage, reading the body of the response, lies
\* between the transport and the status; each stage has its own message
\* class, a call fails exactly when one of the stages does, and an
\* unreadable image sends nothing.
C6_FiveStages ==
    Returned("AnalyzeScreenshot") =>
        LET stage ==
              IF ReadFailed THEN "Failed to read image: "
              ELSE IF TransportFailed THEN "Ollama request failed: "
              ELSE IF ~resp.readOk THEN "Failed to read response: "
              ELSE IF resp.StatusCode # 200 THEN "Ollama returned status "
              ELSE IF ~UnmarshalChat(resp.body).err.isNil THEN "Failed to parse response: "
              ELSE ""
        IN  /\ MessageClass(result) = stage
            /\ result.Success <=> stage = ""
            /\ ~result.Success => ~IsEmptyText(result.Error)
            /\ stage = "Ollama returned status " =>
                  result.Error = <<"Ollama returned status ", ToString(resp.StatusCode),
                                   ": ", resp.body.raw>>
            /\ stage = "Failed to read image: " => Count(events, "POST") = 0

\* a 404 whose body could not be read to the end has been reported as a
\* failure to read the response
C6_Witness ==
    /\ Returned("AnalyzeScreenshot")
    /\ Answered
    /\ resp.StatusCode = 404
    /\ ~resp.readOk
    /\ MessageClass(result) = "Failed to read response: "

\* C7: a call that received a 200 response whose body json.Unmarshal accepts
\* returns Success, no Error, Content the response's message.content and
\* Thinking its message.thinking, each empty when the member is absent.
C7_ContentAndThinking ==
    (/\ Returned("AnalyzeScreenshot")
     /\ Answered
     /\ resp.readOk
     /\ resp.StatusCode = 200
     /\ UnmarshalChat(resp.body).err.isNil) =>
        LET member(name) ==
              IF resp.body.top = "object" /\ resp.body.message.kind = "object"
                 /\ resp.body.message[name].kind = "string"
              THEN resp.body.message[name].text
              ELSE ""
        IN  /\ result.Success
            /\ IsEmptyText(result.Error)
            /\ result.Content = member("content")
            /\ result.Thinking = member("thinking")

\* the scenario of the specification: content and reasoning trace returned
C7_Witness ==
    /\ Returned("AnalyzeScreenshot")
    /\ resp.StatusCode = 200
    /\ result.Success
    /\ result.Content = "A desktop."
    /\ result.Thinking = "reasoning..."

\* C8: no call retries: TakeScreenshot invokes the backend once (and the
\* backend starts its capture tool at most once), AnalyzeScreenshot sends at
\* most one POST, CheckOllamaStatus at most one GET; a call that failed has
\* returned after that single attempt.
C8_NoRetry ==
    /\ Count(events, "captureScreenshot") <= 1
    /\ Cardinality({i \in Positions(events, "exec") : events[i].cmd # PythonQuery}) <= 1
    /\ Count(events, "POST") <= 1
    /\ Count(events, "GET") <= 1
    /\ Returned("TakeScreenshot") => Count(events, "captureScreenshot") = 1
    /\ op = "TakeScreenshot" => Count(events, "POST") + Count(events, "GET") = 0
    /\ op = "AnalyzeScreenshot" => Count(events, "captureScreenshot") + Count(events, "GET") = 0
    /\ op = "CheckOllamaStatus" => Count(events, "captureScreenshot") + Count(events, "POST") = 0

\* an analysis whose request failed in transport has returned
C8_Witness ==
    /\ Returned("AnalyzeScreenshot")
    /\ TransportFailed
    /\ ~result.Success

\* C9: the request AnalyzeScreenshot sends carries exactly one image string,
\* and decoding it with standard base64 gives back the bytes that were read.
C9_Base64RoundTrip ==
    Posted =>
        /\ Len(reqBody.Messages) = 1
        /\ Len(reqBody.Messages[1].Images) = 1
        /\ DecodeString(reqBody.Messages[1].Images[1]) = [ok |-> TRUE, bytes |-> imageData]

\* a two-byte image (one padding character) has been sent
C9_Witness ==
    /\ Posted
    /\ imageData = <<251, 255>>
    /\ reqBody.Messages[1].Images[1] = <<"+", "/", "8", "=">>

\* C10: when the GET fails to connect or times out, CheckOllamaStatus
\* returns the map available=false, modelLoaded=false, error="Ollama is not
\* running".
C10_Unreachable ==
    (Returned("CheckOllamaStatus") /\ Count(events, "GET") = 1 /\ resp = NoResp) =>
        /\ DOMAIN result = {"available", "modelLoaded", "error"}
        /\ result.available = FALSE
        /\ result.modelLoaded = FALSE
        /\ result.error = "Ollama is not running"

\* a status check whose GET timed out has returned
C10_Witness ==
    /\ Returned("CheckOllamaStatus")
    /\ resp = NoResp
    /\ ~err.isNil
    /\ err.msg[4] = "context deadline exceeded (Client.Timeout exceeded while awaiting headers)"

-----------------------------------------------------------------------------
(* Properties of CheckOllamaStatus and of what the model list decides *)

\* the names json.Unmarshal stores when it returns nil: the body is an object
\* (or null) whose models, when present, are an array of objects whose names,
\* when present, are strings
ListedNames(b) ==
    IF /\ b.syntaxOk
       /\ b.top \in {"object", "null"}
       /\ b.models.kind \in {"array", "absent", "null"}
       /\ \A i \in 1..Len(b.models.items) :
              b.models.items[i].kind \in {"string", "absent", "null"}
    THEN { b.models.items[i].chars :
             i \in {j \in 1..Len(b.models.items) : b.models.items[j].kind = "string"} }
    ELSE {}

\* C11: when the endpoint answered, modelLoaded is true exactly when the body
\* parses and some listed model name contains "qwen3-vl" (so
\* "qwen3-vl:8b-instruct" matches); a missing or empty list, or a body that
\* does not parse, leaves it false.
C11_ModelLoaded ==
    (Returned("CheckOllamaStatus") /\ resp # NoResp) =>
        /\ result.modelLoaded <=>
              \E n \in ListedNames(resp.body) :
                 \E k \in 1..Len(n) : k + 7 <= Len(n) /\ SubSeq(n, k, k + 7) = ModelFamily
        /\ QwenInstruct \in ListedNames(resp.body) => result.modelLoaded
        /\ ~resp.body.syntaxOk => ~result.modelLoaded
        /\ resp.body.models.items = <<>> => ~result.modelLoaded

\* the status check has found "qwen3-vl:8b-instruct" in the answer
C11_Witness ==
    /\ Returned("CheckOllamaStatus")
    /\ resp # NoResp
    /\ ListedNames(resp.body) = {QwenInstruct}
    /\ result.modelLoaded

\* C19: in the map CheckOllamaStatus returns, modelLoaded implies available,
\* the error key is present exactly when available is false, and available is
\* true whenever the GET produced a response, whatever its status or body.
C19_StatusMap ==
    /\ op = "CheckOllamaStatus" => (result.modelLoaded => result.available)
    /\ Returned("CheckOllamaStatus") =>
          /\ ("error" \in DOMAIN result) <=> ~result.available
          /\ resp # NoResp => result.available
          /\ result.available => resp # NoResp

\* the status check got a 500 whose body is not JSON and says available
C19_Witness ==
    /\ Returned("CheckOllamaStatus")
    /\ resp.StatusCode = 500
    /\ ~resp.body.syntaxOk
    /\ result.available
    /\ "error" \notin DOMAIN result

-----------------------------------------------------------------------------
(* The order of the steps of a capture, and the backends' hint *)

\* the steps the order of a capture is about
IsWindowStep(e) ==
    e.kind \in {"WindowHide", "Sleep", "captureScreenshot", "captureReturned", "WindowShow"}

\* the kinds of a sequence of events
Kinds(evs) == [i \in 1..Len(evs) |-> evs[i].kind]

\* p is an initial part of s
IsPrefix(p, s) == Len(p) <= Len(s) /\ SubSeq(s, 1, Len(p)) = p

\* the order of a capture that hides the window
HiddenCaptureOrder ==
    <<"WindowHide", "Sleep", "captureScreenshot", "captureReturned", "Sleep", "WindowShow">>

\* C16: in a capture that hides the window the steps come in the order hide,
\* settle delay (500 ms, at least 300 ms), backend invoked, backend returned,
\* post-capture delay (at least 50 ms), show: the backend is never invoked
\* before the settle delay is over and the window is never shown before the
\* backend has returned.
C16_HiddenCaptureOrder ==
    (op = "TakeScreenshot" /\ hideWindow) =>
        LET steps == SelectSeq(events, IsWindowStep) IN
        /\ IsPrefix(Kinds(steps), HiddenCaptureOrder)
        /\ pc = "returned" => Kinds(steps) = HiddenCaptureOrder
        /\ Len(steps) >= 2 => steps[2].ms = 500 /\ steps[2].ms >= 300
        /\ Len(steps) >= 5 => steps[5].ms >= 50
        /\ pc \in {"cs_switch", "cs_query", "cs_exec"} => Len(steps) = 3
        /\ windowVisible <=> Len(steps) \in {0, 6}

\* a capture that hid the window has returned after a failed capture tool
C16_Witness ==
    /\ Returned("TakeScreenshot")
    /\ hideWindow
    /\ ~result.Success
    /\ Count(events, "exec") = 1
    /\ Kinds(SelectSeq(events, IsWindowStep)) = HiddenCaptureOrder

\* C17: for every valid mode and every backend, the hide decision
\* TakeScreenshot makes equals the hideWindow value captureScreenshot returns
\* for that mode.
C17_DecisionEqualsHint ==
    (op = "TakeScreenshot" /\ mode \in ValidModes) =>
        \A i \in Positions(events, "captureReturned") :
           events[i].cmd = <<ToString(hideWindow)>>

-----------------------------------------------------------------------------
(* The focused capture of the macOS backend that asks for a window ID *)

\* places of the runs of an external program in a call
Runs(evs, program) == {i \in Positions(evs, "exec") : evs[i].cmd[1] = program}

\* places in a window list of the windows that are neither the application's
\* own nor the system's (another layer than 0, or owned by nobody or by the
\* window server)
Focusable(ws) ==
    {k \in 1..Len(ws) :
        /\ ~ws[k].own
        /\ ws[k].layer = 0
        /\ ws[k].owner \notin {"", "Window Server"}}

\* the frontmost of them
Topmost(ws) == CHOOSE k \in Focusable(ws) : \A j \in Focusable(ws) : k <= j

-----------------------------------------------------------------------------
(* The destination TakeScreenshot names *)

\* C13: TakeScreenshot names its destination
\* screenshot_<YYYY-MM-DD_HHMMSS>_<mode>.png inside the screenshot directory;
\* two calls that differ in mode or in the wall-clock second they start in get
\* distinct filenames, and two calls with the same mode in the same second
\* share one.
C13_Destination ==
    op = "TakeScreenshot" =>
        LET second == Second(started)
            stamp  == "2024-01-01_1200" \o (IF second < 10 THEN "0" ELSE "") \o ToString(second)
        IN  /\ events[2].cmd = <<stamp>>
            /\ filename = "screenshot_" \o stamp \o "_" \o mode \o ".png"
            /\ savePath = screenshotDir \o "/" \o filename
            /\ pc = "ts_hide" =>
                  /\ Str(Join(ScreenshotDirChars, FileName(Stamp(second), mode))) = savePath
                  /\ Elements(Join(ScreenshotDirChars, FileName(Stamp(second), mode)))
                        = Elements(ScreenshotDirChars) \o <<FileName(Stamp(second), mode)>>
            /\ previous # NoCall =>
                  (filename = previous.filename
                     <=> (mode = previous.mode /\ second = previous.second))

\* a full capture is under way one second after another full capture
\* started, under another name
C13_Witness ==
    /\ op = "TakeScreenshot"
    /\ mode = "full"
    /\ previous.mode = "full"
    /\ previous.second = 0
    /\ Second(started) = 1
    /\ previous.filename = "screenshot_2024-01-01_120000_full.png"
    /\ filename = "screenshot_2024-01-01_120001_full.png"

-----------------------------------------------------------------------------
(* Properties of DeleteScreenshot and GetScreenshots *)

\* the elements of the absolute path an argument of DeleteScreenshot names
Target(filePath) ==
    Elements(IF Head(filePath) = "/" THEN filePath ELSE Path(WorkingDir, filePath))

\* a path that is neither the screenshot directory nor anything under it
Outside(p) ==
    ~(Len(p) >= Len(ScreenshotDirElements)
        /\ SubSeq(p, 1, Len(ScreenshotDirElements)) = ScreenshotDirElements)

\* C12: for every path whose absolute path lies outside the screenshot
\* directory, a sibling directory whose name begins with the directory's name
\* included, DeleteScreenshot returns Success=false and removes nothing:
\* whatever the disk held outside the directory is still there.
C12_OutsideUntouched ==
    (Returned("DeleteScreenshot") /\ Outside(Target(events[1].cmd))) =>
        /\ ~result.Success
        /\ \A p \in DOMAIN FreshDisk : Outside(p) => p \in DOMAIN fs

\* C20: no call of DeleteScreenshot removes the screenshot directory itself.
C20_DirectoryKept ==
    op = "DeleteScreenshot" => ScreenshotDirElements \in DOMAIN fs

\* the name ends with one of the image extensions, whatever the case
HasImageExt(name) ==
    \E x \in ImageExts :
       /\ Len(name) >= Len(x)
       /\ ToLower(SubSeq(name, Len(name) - Len(x) + 1, Len(name))) = x

\* the time the file of a returned entry was modified, as entry.Info() gave it
Modified(info) ==
    LET i == CHOOSE i \in Positions(events, "Info") :
                Base(events[i].cmd) = info.FileName
    IN  events[i].ms

\* what GetScreenshots returns is exactly the files of the directory with an
\* image extension
ListsTheImages ==
    Returned("GetScreenshots") =>
        /\ {result[i].FileName : i \in 1..Len(result)}
             = {Base(p) : p \in {q \in Entries(fs, ScreenshotDirElements) :
                                   ~fs[q].isDir /\ HasImageExt(Base(q))}}
        /\ \A i, j \in 1..Len(result) : result[i].FileName = result[j].FileName => i = j
        /\ \A i \in 1..Len(result) :
              result[i].FilePath = Path(ScreenshotDirChars, result[i].FileName)

\* C14: GetScreenshots returns exactly the entries of the directory that are
\* no directories and have the extension .png, .jpg or .jpeg in any case,
\* newest first: of two returned entries the one modified later comes
\* earlier.
C14_NewestFirst ==
    /\ ListsTheImages
    /\ Returned("GetScreenshots") =>
          \A i, j \in 1..Len(result) :
             Modified(result[i]) > Modified(result[j]) => i < j

-----------------------------------------------------------------------------
(* Properties of the component *)

\* the backend operations of a kind that are pending
InFlight(handler) == Cardinality(Waiting(handler))

\* C15: whatever the user clicks, a capture and an analysis never overlap,
\* and no second capture and no second analysis starts while one is pending.
C15_OneOperation ==
    /\ InFlight("handleCapture") <= 1
    /\ InFlight("handleAnalyze") <= 1
    /\ InFlight("handleCapture") + InFlight("handleAnalyze") <= 1

\* the results section is rendered: a screenshot is selected and there is an
\* analysis result
ResultDisplayed ==
    selectedScreenshot # NoScreenshot /\ ~analysisResult.null

\* C21: under any interleaving of selecting, analysing, capturing and
\* deleting, a displayed analysis result is the result of analysing the
\* screenshot that is selected, never that of one selected before.
C21_ResultOfSelected ==
    ResultDisplayed => analysisResult.filePath = selectedScreenshot.FilePath


\* the step in which the DeleteScreenshot call of a waiting handleDelete
\* returns with success: the file it named was on the disk and is gone
DeleteCompletes(c) ==
    /\ c.await = "DeleteScreenshot"
    /\ c \notin calls'
    /\ Elements(c.filePath) \in DOMAIN fs
    /\ Elements(c.filePath) \notin DOMAIN fs'

\* C22: once the delete of a screenshot has completed with success, that
\* screenshot is not the selected one, also when the selection was changed
\* while the call was pending.
C22_DeletedNotSelected ==
    [][\A c \in calls :
          DeleteCompletes(c) => selectedScreenshot'.FilePath # c.filePath]_vars


\* the step in which a waiting handleCapture, its TakeScreenshot call having
\* returned with success, gets its list and ends
CaptureCompletes(c) ==
    /\ c.handler = "handleCapture"
    /\ c.await = "GetScreenshots"
    /\ c \notin calls'

\* the path of the file a capture of a mode wrote
CapturedPath(m) == Path(ScreenshotDirChars, FileName(Stamp(Second(now)), m))

\* C23: after a capture has completed with success, the selected screenshot
\* is the file this capture wrote, whatever the directory held before.
C23_CapturedIsSelected ==
    [][\A c \in calls :
          CaptureCompletes(c) => selectedScreenshot'.FilePath = CapturedPath(c.mode)]_vars

=============================================================================
